---- MODULE Spec2Model ----
(***************************************************************************)
(* Model of scripts/endpoint-manager.py: a command-line tool that          *)
(* registers LLM endpoint configurations into the Moonshot backend.        *)
(*                                                                         *)
(* One invocation of the CLI runs sequentially; the model follows it from  *)
(* one external interaction to the next (argument parsing, the backend     *)
(* listing call, the configuration files, the import of the backend        *)
(* module, the backend creation call).  The backend registry persists      *)
(* between invocations.                                                    *)
(***************************************************************************)
EXTENDS Integers, Sequences, FiniteSets, TLC

VARIABLES
    registry,   \* the backend's registered endpoints: set of [name, id]
    log,        \* every api_create_endpoint call that succeeded, in order (names)
    ninv,       \* number of invocations started
    pc,         \* position of the running invocation
    cmd,        \* sys.argv[1] of the running invocation ("" if there is none)
    argc,       \* len(sys.argv) of the running invocation
    arg,        \* endpoint_name of the running invocation
    config,     \* the configuration object in hand (a JSON value)
    input,      \* the configuration as it was parsed, before validation
    listed,     \* outcome of the api_get_all_endpoint call of this invocation
    file1,      \* state of <name>.json as seen by this invocation
    file2,      \* state of <name>-connector.json as seen by this invocation
    trace,      \* external calls made by this invocation, in order
    exitCode,   \* -1 while running, else the process exit code
    stdout,     \* what the invocation printed to standard output
    stderr,     \* what the invocation printed to standard error
    vresult,    \* outcome of the last validate_endpoint_config call
    nvalid      \* number of validate_endpoint_config calls on config

vars == <<registry, log, ninv, pc, cmd, argc, arg, config, input, listed,
          file1, file2, trace, exitCode, stdout, stderr, vresult, nvalid>>

---------------------------------------------------------------------------
(* Bounds *)

MaxInvocations == 2
MaxArgc == 4
MaxInitRegistry == 1
MaxValidations == 2

---------------------------------------------------------------------------
(* Values *)

\* Python's None (JSON null; also what dict.get returns for an absent key)
Null == "<None>"

Names == {"a", "b"}
Ids == {"a", "e1"}

required_fields == <<"name", "connector_type", "model">>

default_max_calls_per_second == 2
default_max_concurrency == 1

\* mappings held by 'params' are sets of key/value pairs
EmptyMapping == {}

OptionalFields == {"uri", "token", "max_calls_per_second", "max_concurrency", "params"}

Range(s) == {s[i] : i \in DOMAIN s}

\* the value config.setdefault gives each optional field
DefaultOf(f) ==
    CASE f = "uri" -> ""
      [] f = "token" -> ""
      [] f = "max_calls_per_second" -> default_max_calls_per_second
      [] f = "max_concurrency" -> default_max_concurrency
      [] f = "params" -> EmptyMapping

\* a value other than the default, for a field the user supplied
SuppliedOf(f) ==
    CASE f = "uri" -> "http://h"
      [] f = "token" -> "tok"
      [] f = "max_calls_per_second" -> 5
      [] f = "max_concurrency" -> 3
      [] f = "params" -> {<<"k", "v">>}

\* JSON values: a mapping, a list of n elements, or None
Map(m) == [t |-> "map", m |-> m, n |-> 0]
List(n) == [t |-> "list", m |-> <<>>, n |-> n]
NoValue == [t |-> "none", m |-> <<>>, n |-> 0]

\* Python truthiness of a JSON value
Truthy(v) ==
    CASE v.t = "map" -> DOMAIN v.m # {}
      [] v.t = "list" -> v.n > 0
      [] OTHER -> FALSE

\* dict.get(key, default)
Get(m, key, default) == IF key \in DOMAIN m THEN m[key] ELSE default

---------------------------------------------------------------------------
(* Configurations *)

Absent == "<absent>"

\* the mapping with the given values of the required fields (Absent: no such
\* key) and a user-supplied value for every optional field of opts
MkConfig(nv, cv, mv, opts) ==
    LET vals == [f \in {"name", "connector_type", "model"} |->
                    CASE f = "name" -> nv
                      [] f = "connector_type" -> cv
                      [] f = "model" -> mv]
        dom == {f \in DOMAIN vals : vals[f] # Absent} \cup opts
    IN  [f \in dom |-> IF f \in DOMAIN vals THEN vals[f] ELSE SuppliedOf(f)]

\* contents of configuration files in the data directory
FileConfigs ==
    {MkConfig(Absent, Absent, Absent, {})}
        \cup {MkConfig(nv, cv, "m", {}) : nv \in {Absent} \cup Names, cv \in {Absent, "ct"}}

\* mappings given inline to register-json
InlineConfigs ==
    {MkConfig(nv, cv, mv, opts) :
        nv \in {Absent, Null} \cup Names, cv \in {Absent, "ct"},
        mv \in {Absent, "m"}, opts \in {{}, OptionalFields}}

\* mappings handed to validate_endpoint_config and register_endpoint
AllConfigs ==
    {MkConfig(nv, cv, mv, opts) :
        nv \in {Absent, Null, "", "a"}, cv \in {Absent, "", "ct"},
        mv \in {Absent, Null, "m"}, opts \in SUBSET OptionalFields}

\* the text of a JSON argument or file: malformed, or the value it parses to
Malformed == [st |-> "malformed", val |-> NoValue]
Text(v) == [st |-> "ok", val |-> v]
NoFile == [st |-> "absent", val |-> NoValue]
Unread == [st |-> "unread", val |-> NoValue]

InlineTexts ==
    {Malformed} \cup {Text(Map(m)) : m \in InlineConfigs}
                \cup {Text(List(n)) : n \in 0..1}

FileStates ==
    {NoFile, Malformed, Text(List(1))} \cup {Text(Map(m)) : m \in FileConfigs}

---------------------------------------------------------------------------
(* Messages *)

Msg(kind, name) ==
    [kind |-> kind, name |-> name, id |-> "", missing |-> <<>>,
     cause |-> "", items |-> {}]
NoMsg == Msg("", "")

NoErr == [prefix |-> "", msg |-> NoMsg]

\* faulty variant: the message is printed without the ERROR: prefix
ReportError_NoPrefix(e) == [prefix |-> "", msg |-> e]

\* main(), the except clause: print(f"ERROR: {e}", file=sys.stderr)
ReportError(e) == [prefix |-> "ERROR:", msg |-> e]

\* an external call of the invocation; err is "" when it returned, else the
\* kind of exception it raised
Ev(op, name, err, args) == [op |-> op, name |-> name, err |-> err, args |-> args]

NotListed == [outcome |-> "none", eps |-> {}]
NoValidation == [called |-> FALSE, raised |-> FALSE, missing |-> <<>>]

---------------------------------------------------------------------------
(* Pure functions of the script *)

\* faulty variant: config[key] = value: a supplied value is overwritten
SetDefault_Overwrite(m, key, value) ==
    [f \in DOMAIN m \cup {key} |-> IF f = key THEN value ELSE m[f]]

\* config.setdefault(key, value)
SetDefault(m, key, value) ==
    IF key \in DOMAIN m THEN m
    ELSE [f \in DOMAIN m \cup {key} |-> IF f = key THEN value ELSE m[f]]

\* faulty variant: only 'name' is required
missing_fields_NameOnly(m) ==
    SelectSeq(required_fields, LAMBDA f : f = "name" /\ f \notin DOMAIN m)

\* faulty variant: "if not config.get(field)": an empty or null value counts as missing
missing_fields_Falsy(m) ==
    SelectSeq(required_fields,
              LAMBDA f : f \notin DOMAIN m \/ m[f] \in {Null, ""})

\* [field for field in required_fields if field not in config]
missing_fields(m) == SelectSeq(required_fields, LAMBDA f : f \notin DOMAIN m)

\* validate_endpoint_config on a mapping: raises ValueError listing the
\* missing fields, or fills the defaults in place
validate_endpoint_config(m) ==
    LET missing == missing_fields(m)
        m1 == SetDefault(m, "uri", DefaultOf("uri"))
        m2 == SetDefault(m1, "token", DefaultOf("token"))
        m3 == SetDefault(m2, "max_calls_per_second", DefaultOf("max_calls_per_second"))
        m4 == SetDefault(m3, "max_concurrency", DefaultOf("max_concurrency"))
        m5 == SetDefault(m4, "params", DefaultOf("params"))
    IN  IF missing # <<>>
        THEN [called |-> TRUE, raised |-> TRUE, missing |-> missing, config |-> m]
        ELSE [called |-> TRUE, raised |-> FALSE, missing |-> <<>>, config |-> m5]

\* the keyword arguments of api_create_endpoint
CreateFields ==
    {"name", "connector_type", "uri", "token", "max_calls_per_second",
     "max_concurrency", "model", "params"}

create_args(m) == [f \in CreateFields |-> m[f]]

\* faulty variant: only the name of an entry is compared
check_endpoint_exists_NameOnly(endpoint_name, endpoints) ==
    \E ep \in endpoints : ep.name = endpoint_name

\* any(ep.get('name') == endpoint_name or ep.get('id') == endpoint_name ...)
check_endpoint_exists(endpoint_name, endpoints) ==
    \E ep \in endpoints : ep.name = endpoint_name \/ ep.id = endpoint_name

\* get_endpoint_config_from_file: the first of the two files that exists is
\* opened and parsed
get_endpoint_config_from_file(f1, f2) ==
    LET first == IF f1.st # "absent" THEN f1 ELSE f2
        which == IF f1.st # "absent" THEN 1 ELSE IF f2.st # "absent" THEN 2 ELSE 0
    IN  [opened |-> which,
         raised |-> first.st = "malformed",
         value |-> IF first.st = "ok" THEN first.val ELSE NoValue]

\* list_available_endpoint_configs restricted to the two candidate files of
\* the requested name: the sorted stems of those that exist
available_configs(name, f1, f2) ==
    (IF f1.st # "absent" THEN {<<name, "">>} ELSE {})
        \cup (IF f2.st # "absent" THEN {<<name, "-connector">>} ELSE {})

---------------------------------------------------------------------------
(* The invocation: how it ends or goes on *)

\* the process exits with the given code; nothing else is printed
Finish(code, out, err) ==
    /\ pc' = "exited"
    /\ exitCode' = code
    /\ stdout' = out
    /\ stderr' = err

\* main() returns normally after print(result)
Exit0(out) == Finish(0, out, NoErr)

\* an exception reaches main()'s except clause: message on stderr, sys.exit(1)
Fail(e) == Finish(1, NoMsg, ReportError(e))

\* the invocation goes on to its next external interaction
Continue(p) ==
    /\ pc' = p
    /\ exitCode' = -1
    /\ stdout' = NoMsg
    /\ stderr' = NoErr

Idle == pc = "idle" /\ ninv < MaxInvocations

\* a new process: nothing is carried over but the backend registry
Begin(c, n, a, cfg) ==
    /\ ninv' = ninv + 1
    /\ cmd' = c
    /\ argc' = n
    /\ arg' = a
    /\ config' = cfg
    /\ input' = cfg
    /\ listed' = NotListed
    /\ file1' = Unread
    /\ file2' = Unread
    /\ trace' = <<>>
    /\ vresult' = NoValidation
    /\ nvalid' = 0
    /\ UNCHANGED <<registry, log>>

UsageText ==
    [Msg("usage", "") EXCEPT !.items =
        {"register", "register-json", "list-available", "list-registered", "check"}]

\* main() with len(sys.argv) < 2: usage on standard output, sys.exit(1)
InvokeNoArgs ==
    /\ Idle
    /\ Begin("", 1, "", NoValue)
    /\ Finish(1, UsageText, NoErr)

\* main() with sys.argv[1] == "register"
InvokeRegister(n, name) ==
    /\ Idle
    /\ \E dirOk \in BOOLEAN :
        /\ Begin("register", n, IF n = 3 THEN name ELSE "", NoValue)
        /\ IF ~dirOk THEN Fail(Msg("moonshot_dir_not_found", ""))
           ELSE IF n # 3 THEN Fail(Msg("usage_register", ""))
           ELSE Continue("listing")

\* main() with sys.argv[1] == "register-json", up to check_endpoint_exists;
\* config.get on a parsed value that is no mapping raises AttributeError
InvokeRegisterJson(n, text) ==
    /\ Idle
    /\ \E dirOk \in BOOLEAN :
        LET parsed == n = 3 /\ dirOk /\ text.st = "ok"
            value == IF parsed THEN text.val ELSE NoValue
            endpoint_name ==
                IF parsed /\ value.t = "map"
                THEN Get(value.m, "name", "unknown") ELSE ""
        IN  /\ Begin("register-json", n, endpoint_name, value)
            /\ IF ~dirOk THEN Fail(Msg("moonshot_dir_not_found", ""))
               ELSE IF n # 3 THEN Fail(Msg("usage_register_json", ""))
               ELSE IF text.st # "ok" THEN Fail(Msg("json_decode", ""))
               ELSE IF value.t # "map" THEN Fail(Msg("attribute_error", ""))
               ELSE Continue("listing")

\* main() with sys.argv[1] == "list-available": the stems of the data
\* directory's *.json files (none if the directory is missing)
InvokeListAvailable(n, stems) ==
    /\ Idle
    /\ \E dirOk \in BOOLEAN :
        /\ Begin("list-available", n, "", NoValue)
        /\ IF ~dirOk THEN Fail(Msg("moonshot_dir_not_found", ""))
           ELSE Exit0([Msg("available", "") EXCEPT !.items = stems])

\* main() with sys.argv[1] == "list-registered", up to api_get_all_endpoint
InvokeListRegistered(n) ==
    /\ Idle
    /\ \E dirOk \in BOOLEAN :
        /\ Begin("list-registered", n, "", NoValue)
        /\ IF ~dirOk THEN Fail(Msg("moonshot_dir_not_found", ""))
           ELSE Continue("listing")

\* faulty variant: the argument count is checked with "> 3": check alone goes on
InvokeCheck_NoCount(n, name) ==
    /\ Idle
    /\ \E dirOk \in BOOLEAN :
        /\ Begin("check", n, IF n = 3 THEN name ELSE "", NoValue)
        /\ IF ~dirOk THEN Fail(Msg("moonshot_dir_not_found", ""))
           ELSE IF n > 3 THEN Fail(Msg("usage_check", ""))
           ELSE Continue("listing")

\* main() with sys.argv[1] == "check", up to check_endpoint_exists
InvokeCheck(n, name) ==
    /\ Idle
    /\ \E dirOk \in BOOLEAN :
        /\ Begin("check", n, IF n = 3 THEN name ELSE "", NoValue)
        /\ IF ~dirOk THEN Fail(Msg("moonshot_dir_not_found", ""))
           ELSE IF n # 3 THEN Fail(Msg("usage_check", ""))
           ELSE Continue("listing")

\* main() with any other sys.argv[1]
InvokeUnknown(n) ==
    /\ Idle
    /\ \E dirOk \in BOOLEAN :
        /\ Begin("bogus", n, "", NoValue)
        /\ IF ~dirOk THEN Fail(Msg("moonshot_dir_not_found", ""))
           ELSE Fail(Msg("unknown_command", "bogus"))

---------------------------------------------------------------------------
(* The backend listing call *)

AlreadyRegistered(name) == Msg("already_registered", name)

\* api_get_all_endpoint returns the registry; check_endpoint_exists or
\* list_registered_endpoints goes on from there
ListingReturns ==
    /\ pc = "listing"
    /\ listed' = [outcome |-> "ok", eps |-> registry]
    /\ trace' = Append(trace, Ev("list", "", "", <<>>))
    /\ LET exists == check_endpoint_exists(arg, registry)
       IN  CASE cmd = "check" ->
                 Exit0([Msg("check", arg) EXCEPT
                            !.cause = IF exists THEN "exists" ELSE "does not exist"])
             [] cmd = "list-registered" ->
                 Exit0([Msg("registered_list", "") EXCEPT
                            !.items = {ep.name : ep \in registry}])
             [] cmd = "register" ->
                 IF exists THEN Exit0(AlreadyRegistered(arg)) ELSE Continue("load")
             [] cmd = "register-json" ->
                 IF exists THEN Exit0(AlreadyRegistered(arg)) ELSE Continue("register")
    /\ UNCHANGED <<registry, log, ninv, cmd, argc, arg, config, input,
                   file1, file2, vresult, nvalid>>

\* the import of the backend module fails, or api_get_all_endpoint raises
ListingRaises(kind) ==
    /\ pc = "listing"
    /\ listed' = [outcome |-> kind, eps |-> {}]
    /\ trace' = Append(trace,
                  Ev(IF kind = "import_error" THEN "import_list" ELSE "list", "", kind, <<>>))
    /\ Fail(CASE cmd = "list-registered" -> Msg("list_failed", "")
              [] cmd # "list-registered" /\ kind = "import_error" ->
                    Msg("import_failed_check", "")
              [] OTHER -> Msg("check_failed", ""))
    /\ UNCHANGED <<registry, log, ninv, cmd, argc, arg, config, input,
                   file1, file2, vresult, nvalid>>

---------------------------------------------------------------------------
(* register <name>: the configuration files *)

\* register_endpoint_by_name after the existence check: load the
\* configuration, "if not config" raise, else go on to register_endpoint
LoadConfig(f1, f2) ==
    /\ pc = "load"
    /\ file1' = f1
    /\ file2' = f2
    /\ LET got == get_endpoint_config_from_file(f1, f2)
       IN  /\ trace' = IF got.opened = 0 THEN trace
                       ELSE Append(trace,
                              Ev("read", IF got.opened = 1 THEN "" ELSE "-connector",
                                 IF got.raised THEN "exception" ELSE "", <<>>))
           /\ IF got.raised
              THEN /\ Fail(Msg("load_failed", arg))
                   /\ UNCHANGED <<config, input>>
              ELSE IF ~Truthy(got.value)
              THEN /\ Fail([Msg("no_config", arg) EXCEPT
                                !.items = available_configs(arg, f1, f2)])
                   /\ UNCHANGED <<config, input>>
              ELSE /\ config' = got.value
                   /\ input' = got.value
                   /\ Continue("register")
    /\ UNCHANGED <<registry, log, ninv, cmd, argc, arg, listed, vresult, nvalid>>

---------------------------------------------------------------------------
(* register_endpoint *)

\* faulty variant: the message does not carry the endpoint's name
RegisterFailed_NoName(name, cause, missing) ==
    [Msg("register_failed", "") EXCEPT !.cause = cause, !.missing = missing]

\* the RuntimeError of the "except Exception" clause
RegisterFailed(name, cause, missing) ==
    [Msg("register_failed", name) EXCEPT !.cause = cause, !.missing = missing]

\* the RuntimeError of the "except ImportError" clause
ImportFailed == Msg("import_failed_register", "")

\* register_endpoint up to the api_create_endpoint call: the import, then
\* validate_endpoint_config.  On a list every required field is "not in" it,
\* and the except clause's config.get then raises AttributeError.
RegisterEndpointBegin(importOk) ==
    /\ pc = "register"
    /\ trace' = Append(trace,
                  Ev("import_create", "", IF importOk THEN "" ELSE "import_error", <<>>))
    /\ IF ~importOk
       THEN /\ Fail(ImportFailed)
            /\ UNCHANGED <<config, vresult, nvalid>>
       ELSE IF config.t # "map"
       THEN /\ Fail(Msg("attribute_error", ""))
            /\ vresult' = [called |-> TRUE, raised |-> TRUE, missing |-> required_fields]
            /\ nvalid' = nvalid + 1
            /\ UNCHANGED config
       ELSE LET v == validate_endpoint_config(config.m)
            IN  /\ vresult' = [called |-> TRUE, raised |-> v.raised, missing |-> v.missing]
                /\ nvalid' = nvalid + 1
                /\ config' = Map(v.config)
                /\ IF v.raised
                   THEN Fail(RegisterFailed(Get(config.m, "name", "unknown"),
                                            "validation", v.missing))
                   ELSE Continue("create")
    /\ UNCHANGED <<registry, log, ninv, cmd, argc, arg, input, listed,
                   file1, file2>>

\* the backend stores the endpoint under the id it chose
api_create_endpoint(endpoints, args, id) ==
    endpoints \cup {[name |-> args["name"], id |-> id]}

CallRecord(name, ok) ==
    [name |-> name, ok |-> ok, carried |-> \E ep \in registry : ep.name = name]

\* api_create_endpoint returns the new endpoint's id; the caller prints it
CreateReturns(id) ==
    /\ pc = "create"
    /\ LET args == create_args(config.m)
       IN  /\ registry' = api_create_endpoint(registry, args, id)
           /\ log' = Append(log, CallRecord(args["name"], TRUE))
           /\ trace' = Append(trace, Ev("create", args["name"], "", args))
    /\ Exit0([Msg(IF cmd = "register" THEN "registered" ELSE "registered_custom", arg)
                EXCEPT !.id = id])
    /\ UNCHANGED <<ninv, cmd, argc, arg, config, input, listed, file1, file2,
                   vresult, nvalid>>

\* api_create_endpoint raises: an ImportError goes to the first except
\* clause, anything else to the second
CreateRaises(kind) ==
    /\ pc = "create"
    /\ LET args == create_args(config.m)
       IN  /\ log' = Append(log, CallRecord(args["name"], FALSE))
           /\ trace' = Append(trace, Ev("create", args["name"], kind, args))
    /\ Fail(IF kind = "import_error" THEN ImportFailed
            ELSE RegisterFailed(Get(config.m, "name", "unknown"), "create", <<>>))
    /\ UNCHANGED <<registry, ninv, cmd, argc, arg, config, input, listed,
                   file1, file2, vresult, nvalid>>

\* the process is gone: its arguments, variables and output go with it, the
\* backend registry stays
ProcessEnds ==
    /\ pc = "exited"
    /\ pc' = "idle"
    /\ cmd' = ""
    /\ argc' = 0
    /\ arg' = ""
    /\ config' = NoValue
    /\ input' = NoValue
    /\ listed' = NotListed
    /\ file1' = Unread
    /\ file2' = Unread
    /\ trace' = <<>>
    /\ exitCode' = -1
    /\ stdout' = NoMsg
    /\ stderr' = NoErr
    /\ vresult' = NoValidation
    /\ nvalid' = 0
    /\ UNCHANGED <<registry, log, ninv>>

---------------------------------------------------------------------------
(* The command-line tool *)

\* endpoints registered before the tool first runs; an entry without an
\* 'id' key has id Null, which is what ep.get('id') gives
InitEndpoints == [name : {"a", "unknown"}, id : {"b", Null}]

Init ==
    /\ registry \in {r \in SUBSET InitEndpoints : Cardinality(r) <= MaxInitRegistry}
    /\ log = <<>>
    /\ ninv = 0
    /\ pc = "idle"
    /\ cmd = ""
    /\ argc = 0
    /\ arg = ""
    /\ config = NoValue
    /\ input = NoValue
    /\ listed = NotListed
    /\ file1 = Unread
    /\ file2 = Unread
    /\ trace = <<>>
    /\ exitCode = -1
    /\ stdout = NoMsg
    /\ stderr = NoErr
    /\ vresult = NoValidation
    /\ nvalid = 0

Stems == {<<n, sfx>> : n \in Names, sfx \in {"", "-connector"}}

Next ==
    \/ InvokeNoArgs
    \/ \E n \in 2..MaxArgc, name \in Names : InvokeRegister(n, name)
    \/ \E n \in 2..MaxArgc, text \in InlineTexts : InvokeRegisterJson(n, text)
    \/ \E n \in 2..MaxArgc, stems \in SUBSET Stems : InvokeListAvailable(n, stems)
    \/ \E n \in 2..MaxArgc : InvokeListRegistered(n)
    \/ \E n \in 2..MaxArgc, name \in Names : InvokeCheck(n, name)
    \/ \E n \in 2..MaxArgc : InvokeUnknown(n)
    \/ ListingReturns
    \/ \E kind \in {"import_error", "exception"} : ListingRaises(kind)
    \/ \E f1 \in FileStates, f2 \in FileStates : LoadConfig(f1, f2)
    \/ \E importOk \in BOOLEAN : RegisterEndpointBegin(importOk)
    \/ \E id \in Ids : CreateReturns(id)
    \/ \E kind \in {"import_error", "exception"} : CreateRaises(kind)
    \/ ProcessEnds

Spec == Init /\ [][Next]_vars

---------------------------------------------------------------------------
(* validate_endpoint_config and register_endpoint on every configuration *)

\* validate_endpoint_config called on the configuration in hand
ValidateConfig ==
    /\ pc = "register"
    /\ nvalid < MaxValidations
    /\ config.t = "map"
    /\ LET v == validate_endpoint_config(config.m)
       IN  /\ vresult' = [called |-> TRUE, raised |-> v.raised, missing |-> v.missing]
           /\ config' = Map(v.config)
    /\ nvalid' = nvalid + 1
    /\ UNCHANGED <<registry, log, ninv, pc, cmd, argc, arg, input, listed,
                   file1, file2, trace, exitCode, stdout, stderr>>

\* register-json with a mapping whose name is not registered, at the call
\* of register_endpoint
InitReg ==
    /\ registry = {}
    /\ log = <<>>
    /\ ninv = 1
    /\ pc = "register"
    /\ cmd = "register-json"
    /\ argc = 3
    /\ config \in {Map(m) : m \in AllConfigs}
    /\ input = config
    /\ arg = Get(config.m, "name", "unknown")
    /\ listed = [outcome |-> "ok", eps |-> {}]
    /\ file1 = Unread
    /\ file2 = Unread
    /\ trace = <<Ev("list", "", "", <<>>)>>
    /\ exitCode = -1
    /\ stdout = NoMsg
    /\ stderr = NoErr
    /\ vresult = NoValidation
    /\ nvalid = 0

NextReg ==
    \/ ValidateConfig
    \/ \E importOk \in BOOLEAN : RegisterEndpointBegin(importOk)
    \/ \E id \in Ids : CreateReturns(id)
    \/ \E kind \in {"import_error", "exception"} : CreateRaises(kind)

SpecReg == InitReg /\ [][NextReg]_vars

---------------------------------------------------------------------------
(* Properties *)

CreateCalls == {i \in DOMAIN trace : trace[i].op = "create"}
BackendCalls == {i \in DOMAIN trace : trace[i].op \in {"list", "create"}}
FileReads == {i \in DOMAIN trace : trace[i].op = "read"}
Exited == pc = "exited"
Registering == cmd \in {"register", "register-json"}

\* C1: over any sequence of register and register-json invocations the
\* creation API succeeds at most once per name, and never for a name that a
\* registered endpoint already carried when it was called.
C1_RegisteredAtMostOncePerName ==
    \A i \in DOMAIN log :
        log[i].ok =>
            /\ ~log[i].carried
            /\ \A j \in DOMAIN log :
                (j # i /\ log[j].ok) => log[j].name # log[i].name

\* C2: register and register-json whose listing holds an entry with the
\* requested name as its name or its id end with "already registered", exit
\* code 0, no creation call and no configuration file read.
C2_AlreadyRegistered ==
    (Registering /\ listed.outcome = "ok"
        /\ \E ep \in listed.eps : ep.name = arg \/ ep.id = arg)
    => /\ Exited
       /\ exitCode = 0
       /\ stdout.kind = "already_registered"
       /\ stdout.name = arg
       /\ stderr = NoErr
       /\ CreateCalls = {}
       /\ FileReads = {}
       /\ file1.st = "unread" /\ file2.st = "unread"

\* the requested name matches a registered endpoint by id only
C2_Witness ==
    /\ Exited /\ cmd = "register" /\ listed.outcome = "ok"
    /\ \E ep \in listed.eps : ep.id = arg
    /\ \A ep \in listed.eps : ep.name # arg
    /\ stdout.kind = "already_registered"

\* C3 as stated: every invocation ends with exit code 0, or with exit code 1
\* and a message on standard error that starts with ERROR:.
C3_ExitZeroOrErrorPrefix ==
    Exited => \/ exitCode = 0
              \/ exitCode = 1 /\ stderr.prefix = "ERROR:"

\* C3 amended: an invocation with at least one argument ends with exit code
\* 0 and nothing on standard error, or with exit code 1 and one message on
\* standard error prefixed ERROR:; an invocation without arguments ends with
\* exit code 1, the usage on standard output and nothing on standard error.
C3_ExitCodes ==
    Exited =>
        \/ exitCode = 0 /\ argc >= 2 /\ stderr = NoErr
        \/ exitCode = 1 /\ argc >= 2 /\ stderr.prefix = "ERROR:"
              /\ stderr.msg # NoMsg /\ stdout = NoMsg
        \/ exitCode = 1 /\ argc < 2 /\ stdout.kind = "usage" /\ stderr = NoErr

\* an invocation without arguments has ended
C3_Witness == Exited /\ argc = 1 /\ exitCode = 1 /\ stdout.kind = "usage"

\* the usage on standard output, or one of the usage errors
PrintsUsage ==
    \/ stdout.kind = "usage"
    \/ stderr.msg.kind \in
          {"usage_register", "usage_register_json", "usage_check", "unknown_command"}

\* C4 as stated: with no argument or exactly one argument the invocation
\* prints usage, exits 1 and makes no backend call (where the backend
\* directory exists, so that the arguments are looked at).
C4_UsageWithoutArguments ==
    (argc <= 2 /\ stderr.msg.kind # "moonshot_dir_not_found") =>
        /\ BackendCalls = {}
        /\ Exited => (PrintsUsage /\ exitCode = 1)

\* C4 amended: with no argument the invocation prints the usage, exits 1 and
\* calls nothing.  With exactly one argument, register, register-json, check
\* and an unknown word end at once with exit code 1, an ERROR: message (the
\* command's usage line when the backend directory exists) and no backend
\* call; list-available and list-registered need no further argument, and
\* exit 0 unless the backend directory is missing or the listing raises.
C4_OneArgument ==
    /\ argc = 1 =>
          Exited /\ stdout.kind = "usage" /\ exitCode = 1 /\ trace = <<>>
    /\ (argc = 2 /\ cmd \in {"register", "register-json", "check", "bogus"}) =>
          /\ Exited /\ exitCode = 1 /\ trace = <<>>
          /\ stderr.prefix = "ERROR:"
          /\ stderr.msg.kind \in
                {"moonshot_dir_not_found",
                 CASE cmd = "register" -> "usage_register"
                   [] cmd = "register-json" -> "usage_register_json"
                   [] cmd = "check" -> "usage_check"
                   [] OTHER -> "unknown_command"}
    /\ (argc = 2 /\ cmd \in {"list-available", "list-registered"} /\ Exited) =>
          \/ exitCode = 0
          \/ exitCode = 1 /\ stderr.msg.kind \in {"moonshot_dir_not_found", "list_failed"}

\* check alone was refused with its usage line
C4_Witness ==
    Exited /\ argc = 2 /\ cmd = "check" /\ stderr.msg.kind = "usage_check"

\* the inline configuration has name but neither connector_type nor model
NameOnly ==
    /\ cmd = "register-json" /\ input.t = "map"
    /\ "name" \in DOMAIN input.m
    /\ "connector_type" \notin DOMAIN input.m
    /\ "model" \notin DOMAIN input.m

\* C5 as stated: register-json with name but neither connector_type nor
\* model exits 1 and never calls the creation API, whatever the registry.
C5_NameOnlyFails ==
    (NameOnly /\ Exited) => exitCode = 1 /\ CreateCalls = {}

\* C5 amended: such a register-json never calls the creation API; it exits 1
\* unless the listing holds an entry whose name or id is the config's name,
\* in which case it reports "already registered" and exits 0.
C5_NameOnlyNeverCreates ==
    NameOnly =>
        /\ pc # "create"
        /\ CreateCalls = {}
        /\ Exited =>
            IF listed.outcome = "ok"
                /\ \E ep \in listed.eps :
                      ep.name = input.m["name"] \/ ep.id = input.m["name"]
            THEN exitCode = 0 /\ stdout.kind = "already_registered"
            ELSE exitCode = 1 /\ stderr.prefix = "ERROR:"

\* validation refused the name-only configuration
C5_Witness ==
    /\ NameOnly /\ Exited /\ exitCode = 1
    /\ stderr.msg.kind = "register_failed"
    /\ stderr.msg.missing = <<"connector_type", "model">>

\* register_endpoint was entered by this invocation
Attempted == \E i \in DOMAIN trace : trace[i].op = "import_create"

Succeeded ==
    /\ exitCode = 0
    /\ Cardinality(CreateCalls) = 1
    /\ \A i \in CreateCalls : trace[i].err = ""
    /\ stdout.kind \in {"registered", "registered_custom"}
    /\ stdout.id \in Ids
    /\ stderr = NoErr

RequiredSet == {"name", "connector_type", "model"}

\* C7: validate_endpoint_config fails exactly when a required field is no key
\* of the config, and lists exactly the absent required fields; a key with
\* an empty or null value is present.
C7_MissingFields ==
    (vresult.called /\ input.t = "map") =>
        LET absent == RequiredSet \ DOMAIN input.m
        IN  /\ vresult.raised <=> absent # {}
            /\ Range(vresult.missing) = absent
            /\ Len(vresult.missing) = Cardinality(absent)

\* only model is absent; name is null and connector_type is empty
C7_Witness ==
    /\ vresult.called /\ vresult.raised
    /\ vresult.missing = <<"model">>
    /\ input.m["name"] = Null /\ input.m["connector_type"] = ""

SpecDefaults ==
    [uri |-> "", token |-> "", max_calls_per_second |-> 2, max_concurrency |-> 1,
     params |-> {}]

Validated == vresult.called /\ ~vresult.raised

\* C8: after a successful validation the config has its own fields with
\* their values and the default of every optional field it lacked; these are
\* the arguments of the creation call; a further validation changes nothing.
C8_DefaultsApplied ==
    /\ [](Validated =>
            /\ DOMAIN config.m = DOMAIN input.m \cup DOMAIN SpecDefaults
            /\ \A f \in DOMAIN input.m : config.m[f] = input.m[f]
            /\ \A f \in DOMAIN SpecDefaults \ DOMAIN input.m :
                  config.m[f] = SpecDefaults[f]
            /\ \A i \in CreateCalls :
                  /\ DOMAIN trace[i].args = CreateFields
                  /\ \A f \in CreateFields :
                        trace[i].args[f] =
                            IF f \in DOMAIN input.m THEN input.m[f]
                            ELSE SpecDefaults[f])
    /\ [][(Validated /\ nvalid' > nvalid) => config' = config]_vars

\* validated more than once, with some optional fields given and some not,
\* and then passed to the creation API
C8_Witness ==
    /\ Validated /\ nvalid >= 2
    /\ DOMAIN input.m = RequiredSet \cup {"uri", "max_concurrency"}
    /\ CreateCalls # {}

\* C9: register <name> uses <name>.json if it exists, else
\* <name>-connector.json; "No configuration found" only when neither exists;
\* a malformed first match is a load error; every well-formed file, an empty
\* mapping included, goes on to validation.
C9_FirstExistingFileIsUsed ==
    (cmd = "register" /\ file1.st # "unread") =>
        LET first == IF file1.st # "absent" THEN file1 ELSE file2
        IN  /\ stderr.msg.kind = "no_config" =>
                (file1.st = "absent" /\ file2.st = "absent")
            /\ first.st = "malformed" => stderr.msg.kind = "load_failed"
            /\ first.st = "ok" =>
                /\ input = first.val
                /\ stderr.msg.kind \notin {"no_config", "load_failed"}
                /\ pc = "register" \/ Attempted

\* C10: an invocation calls the creation API at most once, only for register
\* or register-json, and only after a listing call of the same invocation
\* returned no entry whose name or id is the name it passes; never after a
\* listing call that raised.
C10_CreateAfterCleanListing ==
    /\ Cardinality(CreateCalls) <= 1
    /\ \A i \in CreateCalls :
        /\ Registering
        /\ \E j \in 1..(i - 1) : trace[j].op = "list" /\ trace[j].err = ""
        /\ listed.outcome = "ok"
        /\ \A ep \in listed.eps :
              ep.name # trace[i].name /\ ep.id # trace[i].name
    /\ listed.outcome \notin {"ok", "none"} => (CreateCalls = {} /\ pc # "create")

====
